---- MODULE Spec2Model ----
(***************************************************************************)
(* A model of duckietown_rl/ddpg.py: the DDPG agent (actor, critic, their  *)
(* targets and the two Adam optimizers), its constructor and its predict,  *)
(* train, save and load operations.                                        *)
(*                                                                         *)
(* Tensors are vectors of exact rationals <<n, d>> (d > 0, lowest terms).  *)
(* A network is a record [arch, p, nbt]: its architecture, its parameter   *)
(* vector (what parameters() yields) and one BatchNorm buffer, the         *)
(* num_batches_tracked counter (what state_dict() yields beside p).        *)
(* No module is ever put in eval mode in ddpg.py, so every forward pass    *)
(* runs in training mode: BatchNorm updates its buffers and Dropout draws  *)
(* a mask.                                                                 *)
(***************************************************************************)
EXTENDS Integers, Sequences, FiniteSets, TLC

(* ------------------------------ bounds -------------------------------- *)
\* API calls (predict, train, save, load) made on the agent after construction.
MaxCalls == 2
\* Training iterations run over the agent's life, all train() calls together.
MaxIters == 2

(* -------------------------- exact arithmetic -------------------------- *)
Abs(x) == IF x < 0 THEN -x ELSE x

RECURSIVE Gcd(_, _)
Gcd(a, b) == IF b = 0 THEN a ELSE Gcd(b, a % b)

\* The rational n/d in lowest terms (d > 0).
Rat(n, d) == LET g == Gcd(Abs(n), d) IN IF n = 0 THEN <<0, 1>> ELSE <<n \div g, d \div g>>

I(n) == <<n, 1>>
\* a + b over the least common denominator.
RAdd(a, b) ==
    LET g == Gcd(a[2], b[2])
    IN Rat(a[1] * (b[2] \div g) + b[1] * (a[2] \div g), (a[2] \div g) * b[2])
RNeg(a) == <<-a[1], a[2]>>
RSub(a, b) == RAdd(a, RNeg(b))
\* a * b, cancelling across before multiplying.
RMul(a, b) ==
    IF a[1] = 0 \/ b[1] = 0 THEN <<0, 1>>
    ELSE LET g1 == Gcd(Abs(a[1]), b[2])
             g2 == Gcd(Abs(b[1]), a[2])
         IN <<(a[1] \div g1) * (b[1] \div g2), (a[2] \div g2) * (b[2] \div g1)>>
RLt(a, b) == RSub(a, b)[1] < 0
RSgn(a) == IF a[1] > 0 THEN 1 ELSE IF a[1] < 0 THEN -1 ELSE 0

Zero == I(0)
One == I(1)
Half == <<1, 2>>

RECURSIVE RSum(_)
RSum(s) == IF s = <<>> THEN Zero ELSE RAdd(Head(s), RSum(Tail(s)))

\* tensor.mean() over the batch dimension.
RMean(s) == RMul(RSum(s), <<1, Len(s)>>)

(* ---------------------------- activations ----------------------------- *)
\* nn.Tanh, by its piecewise-linear surrogate (same range [-1, 1], same sign,
\* monotone), and its derivative.
Tanh(x) == IF RLt(x, I(-1)) THEN I(-1) ELSE IF RLt(One, x) THEN One ELSE x
DTanh(x) == IF RLt(I(-1), x) /\ RLt(x, One) THEN One ELSE Zero

\* nn.Sigmoid, by its piecewise-linear surrogate (range [0, 1], 1/2 at 0).
Sigm(x) ==
    LET y == RAdd(Half, RMul(<<1, 4>>, x))
    IN IF RLt(y, Zero) THEN Zero ELSE IF RLt(One, y) THEN One ELSE y
DSigm(x) == IF RLt(I(-2), x) /\ RLt(x, I(2)) THEN <<1, 4>> ELSE Zero

(* ----------------------------- controller ----------------------------- *)
\* Controller.angle_control_commands(dist, angle, v): the heading controller,
\* a pure function of its three arguments (controller.py is not part of the
\* modelled file). DCtrlDv is its derivative in v.
angle_control_commands(dist, angle, v) == RMul(RNeg(RAdd(dist, angle)), v)
DCtrlDv(dist, angle) == RNeg(RAdd(dist, angle))

(* ------------------------------ networks ------------------------------ *)
NetNames == {"actor", "actor_target", "critic", "critic_target"}
max_action == One

\* conv output width: floor((n - k) / stride) + 1.
ConvOut(n, k, stride) == (n - k) \div stride + 1
\* The four convolutions of ActorCNN / CriticCNN applied to one spatial side.
ConvStack(n) == ConvOut(ConvOut(ConvOut(ConvOut(n, 8, 2), 4, 2), 4, 2), 4, 1)
\* The flattened feature count lin1 receives for an (h, w) image.
FlatOf(h, w) == 32 * ConvStack(h) * ConvStack(w)
flat_size == 32 * 9 * 14

\* Dropout(.5) in training mode: a dropped feature is 0, a kept one is scaled
\* by 1 / (1 - p) = 2.
Dropout(x, mask) == RMul(I(2 * mask), x)

\* ActorPID.forward / the only_PID branch of ActorCNN.forward.
PIDForward(dist, angle) ==
    LET x0 == Half
    IN <<x0, RAdd(Zero, angle_control_commands(dist, angle, x0))>>

\* ActorCNN.forward in full mode on feature s (the convolution stack's
\* output for the observation), with dropout mask `mask`.
CNNRaw(p, s, mask) == LET h == Dropout(s, mask) IN <<RMul(p[1], h), RMul(p[2], h)>>
CNNForward(p, s, dist, angle, mask) ==
    LET raw == CNNRaw(p, s, mask)
        x0 == RAdd(Half, RMul(max_action, Sigm(raw[1])))
        x1 == Tanh(raw[2])
    IN <<x0, RAdd(x1, angle_control_commands(dist, angle, x0))>>

\* The actor's action; only_PID is read by ActorCNN alone.
ActorForward(net, s, dist, angle, only_PID, mask) ==
    IF net.arch = "ActorPID" \/ only_PID
    THEN PIDForward(dist, angle)
    ELSE CNNForward(net.p, s, dist, angle, mask)

\* Whether this actor forward runs the BatchNorm layers (bn1..bn4).
ActorUsesBN(net, only_PID) == net.arch = "ActorCNN" /\ ~only_PID

\* A forward pass in training mode updates the BatchNorm buffers.
BNTrack(net) == [net EXCEPT !.nbt = @ + 1]

\* CriticCNN.forward: the value of (s, a).
CriticForward(p, s, a) == RAdd(RAdd(RMul(p[1], s), RMul(p[2], a[1])), RMul(p[3], a[2]))

(* ----------------------------- state dicts ---------------------------- *)
Missing == [arch |-> "missing"]
StateDict(net) == [arch |-> net.arch, p |-> net.p, nbt |-> net.nbt]

\* Module.load_state_dict (strict): a dict of another architecture, sharing
\* no key with the module, raises and copies nothing.
LoadOk(net, sd) == sd.arch = net.arch
LoadStateDict(net, sd) == IF LoadOk(net, sd) THEN [net EXCEPT !.p = sd.p, !.nbt = sd.nbt] ELSE net

(* ------------------------------ gradients ----------------------------- *)
\* An absent .grad (None).
None == <<>>

\* Elementwise helpers on parameter / gradient vectors.
VAdd(u, v) == [i \in 1..Len(u) |-> RAdd(u[i], v[i])]
VZero(u) == [i \in 1..Len(u) |-> Zero]

\* optimizer.zero_grad(): an existing .grad is zeroed, an absent one stays absent.
ZeroGrad(g) == IF g = None THEN None ELSE VZero(g)
\* loss.backward(): the loss's gradient is added to .grad.
Accumulate(g, contrib) == IF g = None THEN contrib ELSE VAdd(g, contrib)

(* ------------------------------ constants ----------------------------- *)
\* The values the random initialisers give the four fresh networks: the live
\* networks draw from a set, the targets get vectors no live network has.
FreshActorParams == {<<Half, <<-1, 2>>>>}
FreshActorTargetParams == <<Zero, <<1, 4>>>>
FreshCriticParams == <<Half, One, <<-1, 2>>>>
FreshCriticTargetParams == <<I(-1), I(-1), One>>

ActorArch(net_type) == IF net_type = "pid" THEN "ActorPID" ELSE "ActorCNN"
Fresh(arch, p) == [arch |-> arch, p |-> p, nbt |-> 0]

\* Artifacts that may lie under `directory` before the agent first saves, and the
\* critic checkpoint critic_chkp may name.
PretrainedActor == [arch |-> "ActorCNN", p |-> <<<<1, 4>>, One>>, nbt |-> 2]
PretrainedCritic == [arch |-> "CriticCNN", p |-> <<One, Half, Half>>, nbt |-> 3]
ForeignDict == [arch |-> "CriticDense", p |-> <<Zero, Zero, Zero>>, nbt |-> 0]
NoChkp == [arch |-> "none"]
InitialDisks ==
    { [actor |-> Missing, critic |-> Missing],
      [actor |-> PretrainedActor, critic |-> Missing],
      [actor |-> PretrainedActor, critic |-> ForeignDict],
      [actor |-> PretrainedActor, critic |-> PretrainedCritic] }

(* ----------------------------- construction --------------------------- *)
\* DDPG.__init__, the actor half: both actors are built, the target then
\* loads the live actor's state dict.
ConstructActors(net_type, fa) ==
    LET actor == Fresh(ActorArch(net_type), fa)
        target == Fresh(ActorArch(net_type), FreshActorTargetParams)
    IN [actor |-> actor, actor_target |-> LoadStateDict(target, StateDict(actor))]

\* A plausible slip: critic_target synchronised before the checkpoint is loaded.
ConstructCriticsEarlySync(critic_chkp) ==
    LET fresh == Fresh("CriticCNN", FreshCriticParams)
        target == LoadStateDict(Fresh("CriticCNN", FreshCriticTargetParams), StateDict(fresh))
        critic == IF critic_chkp # NoChkp THEN LoadStateDict(fresh, critic_chkp) ELSE fresh
    IN [critic |-> critic, critic_target |-> target]

\* DDPG.__init__, the critic half: the critic is built, loads critic_chkp when
\* one is given, and only then the target is built and loads the critic's
\* state dict.
ConstructCritics(critic_chkp) ==
    LET fresh == Fresh("CriticCNN", FreshCriticParams)
        critic == IF critic_chkp # NoChkp THEN LoadStateDict(fresh, critic_chkp) ELSE fresh
        target == Fresh("CriticCNN", FreshCriticTargetParams)
    IN [critic |-> critic, critic_target |-> LoadStateDict(target, StateDict(critic))]

DDPGInit(net_type, critic_chkp, fa) ==
    LET a == ConstructActors(net_type, fa)
        c == ConstructCritics(critic_chkp)
    IN [actor |-> a.actor, actor_target |-> a.actor_target,
        critic |-> c.critic, critic_target |-> c.critic_target]

(* -------------------------------- state ------------------------------- *)
VARIABLES
    net_type,     \* "cnn" or "pid"
    critic_chkp,  \* the checkpoint given at construction, or NoChkp
    nets,         \* actor, actor_target, critic, critic_target
    grads,        \* the .grad of each network's parameters, or None
    opts,         \* actor_optimizer, critic_optimizer: the steps each has taken
    disk,         \* the artifacts {name}_actor.pth and {name}_critic.pth
    pc,           \* "idle", or the position inside train()
    tr,           \* train()'s arguments and locals
    trace,        \* the events of the current train() call, in order
    calls,        \* API calls made so far
    result        \* the last API call: what it was given, how it ended, what it returned

vars == <<net_type, critic_chkp, nets, grads, opts, disk, pc, tr, trace, calls, result>>

NoTrain == [iterations |-> 0]

Init ==
    /\ net_type \in {"cnn", "pid"}
    /\ critic_chkp \in {NoChkp, PretrainedCritic}
    /\ \E fa \in FreshActorParams : nets = DDPGInit(net_type, critic_chkp, fa)
    /\ grads = [n \in NetNames |-> None]
    /\ opts = [actor_optimizer |-> [step |-> 0], critic_optimizer |-> [step |-> 0]]
    /\ disk \in InitialDisks
    /\ pc = "idle"
    /\ tr = NoTrain
    /\ trace = <<>>
    /\ calls = 0
    /\ result = [op |-> "__init__", status |-> "ok"]

(* ------------------------------- predict ------------------------------ *)
\* Observations handed to predict: channel count, height, width and the
\* feature s the convolution stack extracts from the pixels.
Observations ==
    { [ch |-> 3, h |-> 120, w |-> 160, s |-> One],
      [ch |-> 3, h |-> 64, w |-> 64, s |-> One],
      [ch |-> 1, h |-> 120, w |-> 160, s |-> One] }
PredictDists == {<<1, 4>>}
PredictAngles == {<<-1, 2>>}
Masks == {0, 1}

\* How self.actor(state, dist, angle, only_pid) ends: ActorPID.forward takes
\* (x, dist, angle) and is handed a fourth positional argument; ActorCNN's lin1
\* needs flat_size features.
PredictStatus(actor, obs, only_pid) ==
    IF obs.ch # 3 THEN "AssertionError"
    ELSE IF actor.arch = "ActorPID" THEN "TypeError"
    ELSE IF ~only_pid /\ FlatOf(obs.h, obs.w) # flat_size THEN "RuntimeError"
    ELSE "ok"

\* Whether the call reaches bn1..bn4 (they run before lin1 can fail).
PredictRunsBN(actor, obs, only_pid) ==
    obs.ch = 3 /\ ActorUsesBN(actor, only_pid)

predict(obs, dist, angle, only_pid, mask) ==
    LET actor == nets["actor"]
        status == PredictStatus(actor, obs, only_pid)
        value == IF status = "ok"
                 THEN ActorForward(actor, obs.s, dist, angle, only_pid, mask)
                 ELSE <<>>
        inp == [obs |-> obs, dist |-> dist, angle |-> angle, only_pid |-> only_pid]
    IN /\ pc = "idle" /\ calls < MaxCalls
       /\ nets' = [nets EXCEPT !["actor"] =
                      IF PredictRunsBN(actor, obs, only_pid) THEN BNTrack(@) ELSE @]
       /\ result' = [op |-> "predict", status |-> status, inp |-> inp, value |-> value]
       /\ calls' = calls + 1
       /\ UNCHANGED <<net_type, critic_chkp, grads, opts, disk, pc, tr, trace>>

Predict ==
    \E obs \in Observations, dist \in PredictDists, angle \in PredictAngles,
       only_pid \in BOOLEAN, mask \in Masks :
        /\ (mask = 0 => ActorUsesBN(nets["actor"], only_pid))
        /\ predict(obs, dist, angle, only_pid, mask)

(* ----------------------------- save / load ---------------------------- *)
save ==
    /\ pc = "idle" /\ calls < MaxCalls
    /\ disk' = [actor |-> StateDict(nets["actor"]), critic |-> StateDict(nets["critic"])]
    /\ result' = [op |-> "save", status |-> "ok"]
    /\ calls' = calls + 1
    /\ UNCHANGED <<net_type, critic_chkp, nets, grads, opts, pc, tr, trace>>

\* How loading artifact `file` into `net` ends.
LoadStatus(net, file) ==
    IF file = Missing THEN "FileNotFoundError"
    ELSE IF ~LoadOk(net, file) THEN "RuntimeError"
    ELSE "ok"

\* A plausible slip: the critic artifact loaded before the actor artifact.
LoadCriticFirst(ns, d) ==
    LET cs == LoadStatus(ns["critic"], d.critic)
        n1 == IF cs = "ok" THEN [ns EXCEPT !["critic"] = LoadStateDict(@, d.critic)] ELSE ns
        as == LoadStatus(n1["actor"], d.actor)
    IN IF cs # "ok" THEN [nets |-> ns, status |-> cs, at |-> "critic"]
       ELSE IF as # "ok" THEN [nets |-> n1, status |-> as, at |-> "actor"]
       ELSE [nets |-> [n1 EXCEPT !["actor"] = LoadStateDict(@, d.actor)],
             status |-> "ok", at |-> "done"]

\* A plausible slip: load also re-synchronising the targets with what it loaded.
LoadSyncsTargets(ns, d) ==
    LET as == LoadStatus(ns["actor"], d.actor)
        n1 == IF as = "ok" THEN [ns EXCEPT !["actor"] = LoadStateDict(@, d.actor),
                                           !["actor_target"] = LoadStateDict(@, d.actor)] ELSE ns
        cs == LoadStatus(n1["critic"], d.critic)
    IN IF as # "ok" THEN [nets |-> ns, status |-> as, at |-> "actor"]
       ELSE IF cs # "ok" THEN [nets |-> n1, status |-> cs, at |-> "critic"]
       ELSE [nets |-> [n1 EXCEPT !["critic"] = LoadStateDict(@, d.critic),
                                 !["critic_target"] = LoadStateDict(@, d.critic)],
             status |-> "ok", at |-> "done"]

\* DDPG.load: the actor artifact is read and loaded, then the critic artifact;
\* the first failure raises out of the call.
LoadResult(ns, d) ==
    LET as == LoadStatus(ns["actor"], d.actor)
        n1 == IF as = "ok" THEN [ns EXCEPT !["actor"] = LoadStateDict(@, d.actor)] ELSE ns
        cs == LoadStatus(n1["critic"], d.critic)
    IN IF as # "ok" THEN [nets |-> ns, status |-> as, at |-> "actor"]
       ELSE IF cs # "ok" THEN [nets |-> n1, status |-> cs, at |-> "critic"]
       ELSE [nets |-> [n1 EXCEPT !["critic"] = LoadStateDict(@, d.critic)],
             status |-> "ok", at |-> "done"]

load ==
    LET r == LoadResult(nets, disk)
    IN /\ pc = "idle" /\ calls < MaxCalls
       /\ nets' = r.nets
       /\ result' = [op |-> "load", status |-> r.status, at |-> r.at]
       /\ calls' = calls + 1
       /\ UNCHANGED <<net_type, critic_chkp, grads, opts, disk, pc, tr, trace>>

(* -------------------------------- train ------------------------------- *)
\* Transitions the replay buffer holds; replay_buffer.sample returns a batch.
T1 == [state |-> One, action |-> <<Half, Zero>>, reward |-> One, next_state |-> One,
       done |-> 0, dist |-> <<1, 4>>, angle |-> <<-1, 2>>,
       next_dist |-> Zero, next_angle |-> Half]
T2 == [state |-> One, action |-> <<One, Half>>, reward |-> I(-1), next_state |-> One,
       done |-> 1, dist |-> Zero, angle |-> Half,
       next_dist |-> <<1, 4>>, next_angle |-> Zero]
Batches == {<<T1, T2>>}

\* The soft-update rates and discounts train() is called with.
Taus == {<<1, 4>>}
Discounts == {Half}

\* torch.optim.Adam's step sizes: lr=1e-4 for the actor, the default for the
\* critic, by dyadic surrogates that keep the actor's the smaller.
ActorLr == <<1, 8>>
CriticLr == <<1, 4>>

\* The parameters each optimizer was built over.
ActorOptimizerOwnsBoth == {"actor", "critic"}
actor_optimizer_params == {"actor"}
critic_optimizer_params == {"critic"}

\* for it in range(iterations): whether another iteration runs.
LoopRunsOnceMore(it, iterations) == it <= iterations
LoopContinues(it, iterations) == it < iterations

\* done = 1 - sample["done"].
DoneForgotInversion(done) == I(done)
NotDone(done) == I(1 - done)

\* target_Q = reward + (done * discount * target_Q).detach(), for one transition;
\* `done` is the inverted flag.
TargetQOf(reward, done, discount, tq) == RAdd(reward, RMul(RMul(done, discount), tq))

\* The target networks' value of a transition's next state.
TargetValue(actor_target, critic_target, t, mask) ==
    CriticForward(critic_target.p, t.next_state,
                  ActorForward(actor_target, t.next_state, t.next_dist, t.next_angle, FALSE, mask))

\* The gradient of F.mse_loss(critic(state, action), target_Q) in the critic's
\* parameters.
CriticLossGrad(p, batch, y) ==
    LET x(i) == <<batch[i].state, batch[i].action[1], batch[i].action[2]>>
        e(i) == RSub(CriticForward(p, batch[i].state, batch[i].action), y[i])
    IN [j \in 1..3 |-> RMean([i \in 1..Len(batch) |-> RMul(I(2), RMul(e(i), x(i)[j]))])]

\* The gradient of -critic(state, actor(state, dist, angle)).mean() in the
\* critic's parameters.
ActorLossGradCritic(actor, batch, mask) ==
    LET a(i) == ActorForward(actor, batch[i].state, batch[i].dist, batch[i].angle, FALSE, mask)
        x(i) == <<batch[i].state, a(i)[1], a(i)[2]>>
    IN [j \in 1..3 |-> RNeg(RMean([i \in 1..Len(batch) |-> x(i)[j]]))]

\* The same loss's gradient in the actor's parameters: None for ActorPID, whose
\* output uses none of them.
ActorLossGradActor(actor, p, batch, mask) ==
    LET h(i) == Dropout(batch[i].state, mask)
        raw(i) == CNNRaw(actor.p, batch[i].state, mask)
        d0(i) == <<RMul(RMul(max_action, DSigm(raw(i)[1])), h(i)), Zero>>
        d1(i) == <<RMul(DCtrlDv(batch[i].dist, batch[i].angle), d0(i)[1]),
                   RMul(DTanh(raw(i)[2]), h(i))>>
    IN IF actor.arch = "ActorPID" THEN None
       ELSE [j \in 1..2 |-> RNeg(RMean([i \in 1..Len(batch) |->
                RAdd(RMul(p[2], d0(i)[j]), RMul(p[3], d1(i)[j]))]))]

\* loss.backward() on a network's .grad; a loss that reaches none of the
\* network's parameters leaves it as it is.
Backward(g, contrib) == IF contrib = None THEN g ELSE Accumulate(g, contrib)

\* One Adam step on a parameter vector: each parameter moves by lr against the
\* sign of its gradient; a network with no gradient is skipped.
AdamStep(p, g, lr) ==
    IF g = None THEN p ELSE [i \in 1..Len(p) |-> RSub(p[i], RMul(lr, I(RSgn(g[i]))))]

\* optimizer.step() of an optimizer built over the networks `owned`.
OptimizerStep(ns, gs, owned, lr) ==
    [n \in NetNames |-> IF n \in owned THEN [ns[n] EXCEPT !.p = AdamStep(@, gs[n], lr)] ELSE ns[n]]
\* A plausible slip: the zero_grad() call left out.
OptimizerZeroGradSkipped(gs, owned) == gs
OptimizerZeroGrad(gs, owned) ==
    [n \in NetNames |-> IF n \in owned THEN ZeroGrad(gs[n]) ELSE gs[n]]

\* A plausible slip: the interpolation weights exchanged.
SoftUpdateSwapped(tau, param, target_param) ==
    [i \in 1..Len(param) |-> RAdd(RMul(RSub(One, tau), param[i]), RMul(tau, target_param[i]))]
\* target_param.data.copy_(tau * param.data + (1 - tau) * target_param.data),
\* over zip(parameters(), target.parameters()).
SoftUpdate(tau, param, target_param) ==
    [i \in 1..Len(param) |-> RAdd(RMul(tau, param[i]), RMul(RSub(One, tau), target_param[i]))]

train(iterations, discount, tau) ==
    /\ pc = "idle" /\ calls < MaxCalls
    /\ pc' = "loop"
    /\ tr' = [iterations |-> iterations, it |-> 0, discount |-> discount, tau |-> tau]
    /\ trace' = <<>>
    /\ result' = [op |-> "train", status |-> "running"]
    /\ calls' = calls + 1
    /\ UNCHANGED <<net_type, critic_chkp, nets, grads, opts, disk>>

Train == \E iterations \in 0..(MaxIters - opts.critic_optimizer.step),
               discount \in Discounts, tau \in Taus :
            train(iterations, discount, tau)

\* The loop header: the next iteration starts by sampling the replay buffer
\* and converting the batch (old: the networks as this iteration found them).
Sample ==
    /\ pc = "loop" /\ LoopContinues(tr.it, tr.iterations)
    /\ \E batch \in Batches :
        tr' = [iterations |-> tr.iterations, it |-> tr.it, discount |-> tr.discount,
               tau |-> tr.tau, batch |-> batch,
               done |-> [i \in 1..Len(batch) |-> NotDone(batch[i].done)],
               old |-> nets]
    /\ trace' = Append(trace, "sample")
    /\ pc' = "target_q"
    /\ UNCHANGED <<net_type, critic_chkp, nets, grads, opts, disk, calls, result>>

\* The loop header once the iterations are done: train() returns.
Return ==
    /\ pc = "loop" /\ ~LoopContinues(tr.it, tr.iterations)
    /\ pc' = "idle"
    /\ result' = [op |-> "train", status |-> "ok"]
    /\ UNCHANGED <<net_type, critic_chkp, nets, grads, opts, disk, tr, trace, calls>>

\* Compute the target Q value: both target networks run forward.
TargetQ ==
    /\ pc = "target_q"
    /\ \E mask \in Masks :
        /\ (mask = 0 => ActorUsesBN(nets["actor_target"], FALSE))
        /\ tr' = [f \in DOMAIN tr \cup {"mask_t", "target_Q"} |->
                    IF f = "mask_t" THEN mask
                    ELSE IF f = "target_Q"
                    THEN [i \in 1..Len(tr.batch) |->
                            TargetQOf(tr.batch[i].reward, tr.done[i], tr.discount,
                                      TargetValue(nets["actor_target"], nets["critic_target"],
                                                  tr.batch[i], mask))]
                    ELSE tr[f]]
    /\ nets' = [nets EXCEPT
                  !["actor_target"] = IF ActorUsesBN(@, FALSE) THEN BNTrack(@) ELSE @,
                  !["critic_target"] = BNTrack(@)]
    /\ pc' = "critic_backward"
    /\ UNCHANGED <<net_type, critic_chkp, grads, opts, disk, trace, calls, result>>

\* current_Q, critic_loss, critic_optimizer.zero_grad(), critic_loss.backward().
CriticBackward ==
    /\ pc = "critic_backward"
    /\ nets' = [nets EXCEPT !["critic"] = BNTrack(@)]
    /\ grads' = [OptimizerZeroGrad(grads, critic_optimizer_params) EXCEPT
                   !["critic"] = Backward(@, CriticLossGrad(nets["critic"].p, tr.batch, tr.target_Q))]
    /\ pc' = "critic_step"
    /\ UNCHANGED <<net_type, critic_chkp, opts, disk, tr, trace, calls, result>>

\* critic_optimizer.step().
CriticStep ==
    /\ pc = "critic_step"
    /\ nets' = OptimizerStep(nets, grads, critic_optimizer_params, CriticLr)
    /\ opts' = [opts EXCEPT !.critic_optimizer.step = @ + 1]
    /\ trace' = Append(trace, "critic_step")
    /\ pc' = "actor_backward"
    /\ UNCHANGED <<net_type, critic_chkp, grads, disk, tr, calls, result>>

\* actor_loss through the live actor and the live critic,
\* actor_optimizer.zero_grad(), actor_loss.backward().
ActorBackward ==
    /\ pc = "actor_backward"
    /\ \E mask \in Masks :
        /\ (mask = 0 => ActorUsesBN(nets["actor"], FALSE))
        /\ tr' = [f \in DOMAIN tr \cup {"mask_a"} |-> IF f = "mask_a" THEN mask ELSE tr[f]]
        /\ grads' = [OptimizerZeroGrad(grads, actor_optimizer_params) EXCEPT
                       !["critic"] = Backward(@, ActorLossGradCritic(nets["actor"], tr.batch, mask)),
                       !["actor"] = Backward(@, ActorLossGradActor(nets["actor"], nets["critic"].p,
                                                                   tr.batch, mask))]
    /\ nets' = [nets EXCEPT
                  !["actor"] = IF ActorUsesBN(@, FALSE) THEN BNTrack(@) ELSE @,
                  !["critic"] = BNTrack(@)]
    /\ pc' = "actor_step"
    /\ UNCHANGED <<net_type, critic_chkp, opts, disk, trace, calls, result>>

\* actor_optimizer.step().
ActorStep ==
    /\ pc = "actor_step"
    /\ nets' = OptimizerStep(nets, grads, actor_optimizer_params, ActorLr)
    /\ opts' = [opts EXCEPT !.actor_optimizer.step = @ + 1]
    /\ trace' = Append(trace, "actor_step")
    /\ pc' = "soft_critic"
    /\ UNCHANGED <<net_type, critic_chkp, grads, disk, tr, calls, result>>

\* Update the frozen target models: critic_target from critic.
SoftUpdateCritic ==
    /\ pc = "soft_critic"
    /\ nets' = [nets EXCEPT !["critic_target"].p = SoftUpdate(tr.tau, nets["critic"].p, @)]
    /\ trace' = Append(trace, "soft_critic")
    /\ pc' = "soft_actor"
    /\ UNCHANGED <<net_type, critic_chkp, grads, opts, disk, tr, calls, result>>

\* ... and actor_target from actor; the iteration ends.
SoftUpdateActor ==
    /\ pc = "soft_actor"
    /\ nets' = [nets EXCEPT !["actor_target"].p = SoftUpdate(tr.tau, nets["actor"].p, @)]
    /\ trace' = Append(trace, "soft_actor")
    /\ tr' = [tr EXCEPT !.it = @ + 1]
    /\ pc' = "loop"
    /\ UNCHANGED <<net_type, critic_chkp, grads, opts, disk, calls, result>>

Next ==
    \/ Predict \/ save \/ load
    \/ Train \/ Sample \/ Return
    \/ TargetQ \/ CriticBackward \/ CriticStep
    \/ ActorBackward \/ ActorStep
    \/ SoftUpdateCritic \/ SoftUpdateActor

Spec == Init /\ [][Next]_vars

(* ------------------------------- claims ------------------------------- *)
\* An API call of kind op has just been made (the step that makes it).
Called(op) == pc = "idle" /\ calls' = calls + 1 /\ result'.op = op
TargetNames == {"actor_target", "critic_target"}
Live(target) == IF target = "actor_target" THEN "actor" ELSE "critic"

\* C1: immediately after construction, for either net_type and with or without
\* critic_chkp, actor_target equals actor and critic_target equals critic in
\* every parameter (and buffer); with a checkpoint, critic_target carries the
\* checkpoint's parameters, not the random initialisation.
C1_TargetsEqualLiveAfterInit ==
    calls = 0 =>
        /\ \A n \in TargetNames : nets[n] = nets[Live(n)]
        /\ critic_chkp # NoChkp => /\ nets["critic"].p = critic_chkp.p
                                   /\ nets["critic_target"].p = critic_chkp.p

C1_Witness ==
    /\ calls = 0
    /\ critic_chkp # NoChkp
    /\ nets["critic_target"].p = PretrainedCritic.p
    /\ nets["critic_target"].p # FreshCriticParams
    /\ nets["actor_target"].p # FreshActorTargetParams

\* C2: when an iteration of train() has ended, every parameter of each target
\* network is tau * live + (1 - tau) * old_target, old_target being the target
\* as the iteration found it and live the live network after both gradient
\* steps of the iteration.
C2_SoftUpdateIsConvexCombination ==
    (pc = "loop" /\ tr.it > 0) =>
        \A n \in TargetNames : \A i \in 1..Len(nets[n].p) :
            nets[n].p[i] = RAdd(RMul(tr.tau, nets[Live(n)].p[i]),
                                RMul(RSub(One, tr.tau), tr.old[n].p[i]))

C2_Witness ==
    /\ pc = "loop" /\ tr.it = 2
    /\ nets["critic"].p # tr.old["critic"].p
    /\ nets["actor"].p # tr.old["actor"].p
    /\ nets["critic_target"].p # tr.old["critic_target"].p
    /\ nets["actor_target"].p # tr.old["actor_target"].p

\* The positions inside train(), each the guard of exactly one step (the loop
\* header's of Sample or Return).
TrainPositions ==
    {"loop", "target_q", "critic_backward", "critic_step",
     "actor_backward", "actor_step", "soft_critic", "soft_actor"}

\* C3: a train() call runs exactly `iterations` iterations one after the other,
\* each being sample, critic optimizer step, actor optimizer step, soft update
\* of critic_target, soft update of actor_target in that order; the call is
\* always at a position that has a next step, never runs past `iterations`, and
\* has run them all when it has returned.
IterationEvents == <<"sample", "critic_step", "actor_step", "soft_critic", "soft_actor">>
EventsPerIteration == Len(IterationEvents)
C3_IterationsSequentialAndOrdered ==
    result.op = "train" =>
        /\ \A k \in 1..Len(trace) : trace[k] = IterationEvents[((k - 1) % EventsPerIteration) + 1]
        /\ Len(trace) <= EventsPerIteration * tr.iterations
        /\ pc = "loop" => Len(trace) = EventsPerIteration * tr.it
        /\ pc = "idle" => /\ result.status = "ok"
                          /\ Len(trace) = EventsPerIteration * tr.iterations
        /\ pc \notin {"idle", "loop"} => Len(trace) \div EventsPerIteration = tr.it
        /\ tr.it <= tr.iterations
        /\ pc \in TrainPositions \cup {"idle"}
        /\ pc \notin {"idle", "loop"} => tr.it < tr.iterations

C3_Witness ==
    /\ pc = "idle" /\ result.op = "train" /\ result.status = "ok"
    /\ tr.iterations = 2
    /\ Len(trace) = 2 * EventsPerIteration

\* C4, as claimed: the state of actor_target and critic_target changes only in
\* the soft-update steps of a train iteration.
C4_TargetStateChangesOnlyInSoftUpdate ==
    [][\A n \in TargetNames :
          nets'[n] # nets[n] => pc \in {"soft_critic", "soft_actor"}]_vars

\* C4, amended: the parameters of a target change only in its own soft-update
\* step; beside that only the target forward pass of an iteration touches a
\* target, and it changes the BatchNorm buffers alone; load changes neither a
\* target nor an optimizer's state.
C4_TargetParamsChangeOnlyInSoftUpdate ==
    [][/\ nets'["critic_target"].p # nets["critic_target"].p => pc = "soft_critic"
       /\ nets'["actor_target"].p # nets["actor_target"].p => pc = "soft_actor"
       /\ \A n \in TargetNames :
            nets'[n] # nets[n] => pc \in {"target_q", "soft_critic", "soft_actor"}
       /\ Called("load") =>
            /\ \A n \in TargetNames : nets'[n] = nets[n]
            /\ opts' = opts /\ grads' = grads]_vars

C4_Witness ==
    /\ pc = "idle" /\ result.op = "load" /\ result.status = "ok"
    /\ opts.critic_optimizer.step > 0
    /\ nets["actor"].p = PretrainedActor.p
    /\ nets["actor_target"].p # nets["actor"].p
    /\ nets["critic_target"].nbt > 0

\* C5: in every iteration the critic optimizer step leaves the actor as it
\* was, and the actor optimizer step leaves the critic as it was.
C5_OptimizerStepsDoNotCross ==
    [][/\ pc = "critic_step" => nets'["actor"] = nets["actor"]
       /\ pc = "actor_step" => nets'["critic"] = nets["critic"]]_vars

C5_Witness ==
    /\ pc = "soft_critic"
    /\ nets["critic"].p # tr.old["critic"].p
    /\ nets["actor"].p # tr.old["actor"].p
    /\ grads["critic"] # None

\* C6: predict on a 3-channel state (of the resolution the networks are sized
\* for) returns a 2-element action without raising, for either net_type and
\* either value of only_pid.
C6_PredictReturnsAction ==
    (result.op = "predict" /\ result.inp.obs.ch = 3
        /\ FlatOf(result.inp.obs.h, result.inp.obs.w) = flat_size) =>
        /\ result.status = "ok"
        /\ Len(result.value) = 2

\* C7, as claimed: a load that fails leaves the live actor and the live critic
\* both as they were.
C7_FailedLoadChangesNothing ==
    [][(Called("load") /\ result'.status # "ok") =>
          /\ nets'["actor"] = nets["actor"]
          /\ nets'["critic"] = nets["critic"]]_vars

\* C7, amended: a load that fails surfaces the error; failing on the actor
\* artifact it leaves the critic (and, the file missing, the actor) as it was;
\* failing on the critic artifact it has already replaced the live actor by the
\* loaded one, the critic being as it was when the file is missing.
C7_FailedLoadIsPartial ==
    [][(Called("load") /\ result'.status # "ok") =>
          /\ result'.status \in {"FileNotFoundError", "RuntimeError"}
          /\ result'.at \in {"actor", "critic"}
          /\ result'.at = "actor" =>
                /\ nets'["critic"] = nets["critic"]
                /\ result'.status = "FileNotFoundError" => nets'["actor"] = nets["actor"]
          /\ result'.at = "critic" =>
                /\ LoadOk(nets["actor"], disk.actor)
                /\ nets'["actor"] = LoadStateDict(nets["actor"], disk.actor)
                /\ result'.status = "FileNotFoundError" => nets'["critic"] = nets["critic"]]_vars

C7_Witness ==
    /\ pc = "idle" /\ result.op = "load"
    /\ result.status = "FileNotFoundError" /\ result.at = "critic"
    /\ nets["actor"].p = PretrainedActor.p
    /\ nets["actor"].p # nets["actor_target"].p

\* C8: predict is a function of the actor's saved state and its input: a predict
\* that follows another on the same input, the actor's parameters being the same
\* (the same agent again, or one that loaded what the other saved), returns the
\* same action.
C8_PredictIsRepeatable ==
    [][(Called("predict") /\ result'.status = "ok"
          /\ result.op = "predict" /\ result.status = "ok"
          /\ result'.inp = result.inp /\ nets'["actor"].p = nets["actor"].p) =>
              result'.value = result.value]_vars

\* C9: once an iteration has computed target_Q, for every transition of the
\* batch target_Q = reward + discount * (1 - done) * critic_target(next_state,
\* actor_target(next_state, next_dist, next_angle)) over the targets as the
\* iteration found them: reward alone for a terminal transition.
C9_BootstrapTarget ==
    pc \in {"critic_backward", "critic_step"} =>
        \A i \in 1..Len(tr.batch) :
            LET t == tr.batch[i]
                v == TargetValue(tr.old["actor_target"], tr.old["critic_target"], t, tr.mask_t)
            IN /\ tr.target_Q[i] =
                    RAdd(t.reward, RMul(RMul(tr.discount, I(1 - t.done)), v))
               /\ t.done = 1 => tr.target_Q[i] = t.reward
               /\ t.done = 0 => tr.target_Q[i] = RAdd(t.reward, RMul(tr.discount, v))

C9_Witness ==
    /\ pc = "critic_backward"
    /\ opts.critic_optimizer.step > 0
    /\ \E i, j \in 1..Len(tr.batch) :
        /\ tr.batch[i].done = 1 /\ tr.target_Q[i] = tr.batch[i].reward
        /\ tr.batch[j].done = 0 /\ tr.target_Q[j] # tr.batch[j].reward

\* C10: the gradient the critic optimizer steps on is the gradient of this
\* iteration's critic loss and nothing else, whatever earlier backward passes
\* left on the critic; the gradient the actor optimizer steps on is that of this
\* iteration's actor loss.
C10_StepsUseCurrentLossGradient ==
    /\ pc = "critic_step" =>
          grads["critic"] = CriticLossGrad(nets["critic"].p, tr.batch, tr.target_Q)
    /\ pc = "actor_step" =>
          grads["actor"] = ActorLossGradActor(nets["actor"], nets["critic"].p, tr.batch, tr.mask_a)
    /\ \A n \in TargetNames : grads[n] = None

C10_Witness ==
    /\ pc = "critic_step"
    /\ opts.actor_optimizer.step > 0
    /\ grads["critic"] # None
    /\ grads["actor"] # None

====
